---- MODULE Spec2Model ----
(***************************************************************************)
(* Model of src/main.py: the Flask server that pulls frames from an RTSP   *)
(* camera, throttles label detection, and records sessions to local files  *)
(* that are shipped to object storage when a session is stopped.           *)
(*                                                                         *)
(* Every Flask request runs in a thread of its own and every /video client *)
(* drives its own generate_frames loop, so the module-level globals of     *)
(* main.py are shared by all of them without a lock.  A handler is         *)
(* modelled as the sequence of its statements; one action is one statement *)
(* (one read or one write of a global), which is the granularity at which  *)
(* the threads interleave.                                                 *)
(***************************************************************************)
EXTENDS Integers, Sequences, FiniteSets, TLC

\* ------------------------------------------------------------------ bounds
NumReq      == 2   \* request-serving threads of the Flask server
NumLoops    == 3   \* /video clients (generate_frames generators) that exist
MaxCalls    == 3   \* /record/start and /record/stop requests received in total
TicksPerSec == 1   \* resolution of the model's clock
\* /video clients that are connected, frames the camera delivers and clock
\* ticks that pass, in each specification
SeqLoops    == 2
SeqFrames   == 1
SeqTicks    == 1
ConcLoops   == 1
ConcFrames  == 1
ConcTicks   == 1
DetLoops    == 1
DetFrames   == 2
DetTicks    == 2
AdmitFrames == 3
AdmitTicks  == 2
MaxSamples  == 3   \* iterations of the update_distance loop
MaxBody     == 2   \* characters in a response body of the distance sensor

\* -------------------------------------------------------- program constants
Window == 1        \* seconds between two detections (line 99)
None   == 0        \* Python's None for video_writer; sinks are numbered from 1

Reqs   == 1..NumReq
LoopIds == 1..NumLoops

\* time.time() of the first instant of the model: the process starts long
\* after the epoch, so that time.time() - 0 exceeds the window (lines 29, 99).
T0 == Window * TicksPerSec + 1

VARIABLES
    recording,           \* line 30
    video_writer,        \* line 31: None or the number of a sink
    recording_filename,  \* line 32
    latest_result,       \* line 27
    last_detect_time,    \* line 29
    now,                 \* the wall clock, in ticks
    sinks,               \* every cv2.VideoWriter constructed so far
    uploads,             \* every upload_to_gcs thread started so far
    tasks,               \* every detect_labels thread started so far
    req,                 \* the request-serving threads
    loops,               \* the generate_frames generators
    calls,               \* number of record requests received
    framesRead,          \* number of cap.read() calls made
    last,                \* history: the record request that completed last
    latest_distance,     \* line 28
    sampler              \* the update_distance thread

vars == <<recording, video_writer, recording_filename, latest_result,
          last_detect_time, now, sinks, uploads, tasks, req, loops, calls,
          framesRead, last, latest_distance, sampler>>

globals == <<recording, video_writer, recording_filename>>
detvars == <<latest_result, last_detect_time, tasks>>
distvars == <<latest_distance, sampler>>
recvars == <<globals, detvars, now, sinks, uploads, req, loops, calls,
             framesRead, last>>

\* ------------------------------------------------------------- pure helpers

\* time.strftime("%Y%m%d_%H%M%S"): the clock cut to whole seconds (line 126)
strftime(t) == t \div TicksPerSec

\* f"record_{timestamp}.mp4" (line 127)
FileName(ts) == <<"record_", ToString(ts), ".mp4">>

\* f"recordings/{recording_filename}" (line 144)
GcsPathBare(fn) == fn
GcsPath(fn) == <<"recordings/">> \o fn

\* cv2.VideoWriter(recording_filename, fourcc, 20.0, (640, 480)) (line 129):
\* the constructor never raises; a sink that could not be opened is an object
\* whose writes are ignored.
NewSink(path, ok) ==
    [path |-> path, state |-> IF ok THEN "open" ELSE "failed",
     frames |-> 0, dropped |-> 0, releases |-> 0]

\* video_writer.release() (line 139)
Release(s) ==
    [s EXCEPT !.state = IF @ = "open" THEN "released" ELSE @,
              !.releases = @ + 1]

\* video_writer.write(frame) (line 98): OpenCV ignores a write to a writer
\* that is not open.
Write(s) ==
    IF s.state = "open" THEN [s EXCEPT !.frames = @ + 1]
                        ELSE [s EXCEPT !.dropped = @ + 1]

OpenSinks == {i \in 1..Len(sinks) : sinks[i].state = "open"}

Releases == LET RECURSIVE Sum(_)
                Sum(i) == IF i = 0 THEN 0 ELSE sinks[i].releases + Sum(i - 1)
            IN Sum(Len(sinks))

\* What a caller can observe of the recording controller.
Snapshot ==
    [recording |-> recording, video_writer |-> video_writer,
     recording_filename |-> recording_filename, nuploads |-> Len(uploads),
     releases |-> Releases, frames |-> framesRead]

Snap0 ==
    [recording |-> FALSE, video_writer |-> None, recording_filename |-> <<>>,
     nuploads |-> 0, releases |-> 0, frames |-> 0]

\* The HTTP response bodies (lines 132 and 147) and Flask's answer to an
\* unhandled exception.
RespStart == "record_started"
RespStop  == "record_stopped"
Resp500   == "internal_server_error"

IdleReq == [op |-> "none", pc |-> "idle", tmp |-> None, arg |-> <<>>,
            pre |-> Snap0, resp |-> ""]

NewLoop == [pc |-> "L91", w |-> None]

NoCall == [op |-> "none", pre |-> Snap0, post |-> Snap0, resp |-> ""]

\* The Python values that latest_distance and the body of GET /distance
\* hold: None, an int, a str.
PyNone   == [type |-> "NoneType"]
PyInt(n) == [type |-> "int", value |-> n]
PyStr(t) == [type |-> "str", text |-> t]

\* What requests.get (line 81) leaves in r: it raised (timeout, connection
\* error), or a status code and a body.
Raised == [raised |-> TRUE, status_code |-> 0, text |-> <<>>]
Response(code, text) == [raised |-> FALSE, status_code |-> code, text |-> text]

\* The bodies the sensor can send: strings of at most MaxBody characters.
Chars == {"0", "7", " ", "x"}
RECURSIVE Strings(_)
Strings(n) ==
    IF n = 0 THEN {<<>>}
    ELSE Strings(n - 1) \cup {Append(t, c) : t \in Strings(n - 1), c \in Chars}
StatusCodes == {200, 500}
Responses ==
    {Raised} \cup {Response(c, t) : c \in StatusCodes, t \in Strings(MaxBody)}

\* str.strip() (line 83): leading and trailing whitespace removed
RECURSIVE lstrip(_)
lstrip(t) == IF t # <<>> /\ Head(t) = " " THEN lstrip(Tail(t)) ELSE t
RECURSIVE rstrip(_)
rstrip(t) ==
    IF t # <<>> /\ t[Len(t)] = " " THEN rstrip(SubSeq(t, 1, Len(t) - 1)) ELSE t
strip(t) == rstrip(lstrip(t))

\* int(str) (line 83): a non-empty string of decimal digits has a value,
\* anything else raises ValueError.
Digit(c) == CASE c = "0" -> 0 [] c = "7" -> 7 [] OTHER -> -1
IsInt(t) == t # <<>> /\ \A i \in 1..Len(t) : Digit(t[i]) >= 0
RECURSIVE int(_)
int(t) == IF t = <<>> THEN 0
          ELSE 10 * int(SubSeq(t, 1, Len(t) - 1)) + Digit(t[Len(t)])

NewSampler == [pc |-> "L81", r |-> Raised, n |-> 0]

\* ----------------------------------------------------------- initial state
\* The module-level assignments of lines 27-32, before any request.
Init ==
    /\ recording = FALSE
    /\ video_writer = None
    /\ recording_filename = <<>>
    /\ latest_result = {}
    /\ last_detect_time = 0
    /\ now = T0
    /\ sinks = <<>>
    /\ uploads = <<>>
    /\ tasks = <<>>
    /\ req = [r \in Reqs |-> IdleReq]
    /\ loops = [l \in LoopIds |-> NewLoop]
    /\ calls = 0
    /\ framesRead = 0
    /\ last = NoCall
    /\ latest_distance = PyNone
    /\ sampler = NewSampler

\* The clock advances.
Tick(maxTicks) ==
    /\ now < T0 + maxTicks
    /\ now' = now + 1
    /\ UNCHANGED <<distvars, globals, detvars, sinks, uploads, req, loops, calls,
                   framesRead, last>>

\* A request is served by the first free thread.
Free(r) == req[r].pc = "idle" /\ \A r2 \in 1..(r - 1) : req[r2].pc # "idle"

\* No request is being served and no generator is inside an iteration.
AtRest ==
    /\ \A r \in Reqs : req[r].pc = "idle"
    /\ \A l \in LoopIds : loops[l].pc \in {"L91", "crashed"}

\* ------------------------------------------------------ GET /record/start
\* A free thread takes a /record/start request and runs lines 126-127:
\* recording_filename = f"record_{timestamp}.mp4"
start_L127(r, alone) ==
    /\ Free(r)
    /\ alone => AtRest
    /\ calls < MaxCalls
    /\ calls' = calls + 1
    /\ recording_filename' = FileName(strftime(now))
    /\ req' = [req EXCEPT ![r] = [IdleReq EXCEPT !.op = "start", !.pc = "L129",
                                                 !.pre = Snapshot]]
    /\ UNCHANGED <<distvars, recording, video_writer, detvars, now, sinks, uploads, loops,
                   framesRead, last>>

\* line 129, right-hand side: cv2.VideoWriter(recording_filename, ...) reads
\* the global and opens the file, or fails to (opens: the outcomes that the
\* disk allows).
start_L129_open(r, opens) ==
    /\ req[r].pc = "L129"
    /\ \E ok \in opens :
          sinks' = Append(sinks, NewSink(recording_filename, ok))
    /\ req' = [req EXCEPT ![r].pc = "L129s", ![r].tmp = Len(sinks) + 1]
    /\ UNCHANGED <<distvars, globals, detvars, now, uploads, loops, calls, framesRead, last>>

\* line 129, the assignment: video_writer = <the new writer>
start_L129_store(r) ==
    /\ req[r].pc = "L129s"
    /\ video_writer' = req[r].tmp
    /\ req' = [req EXCEPT ![r].pc = "L130", ![r].tmp = None]
    /\ UNCHANGED <<distvars, recording, recording_filename, detvars, now, sinks, uploads,
                   loops, calls, framesRead, last>>

\* lines 130-132: recording = True; return "..."
start_L130(r) ==
    /\ req[r].pc = "L130"
    /\ recording' = TRUE
    /\ req' = [req EXCEPT ![r].pc = "done", ![r].resp = RespStart]
    /\ UNCHANGED <<distvars, video_writer, recording_filename, detvars, now, sinks, uploads,
                   loops, calls, framesRead, last>>

\* ------------------------------------------------------- GET /record/stop
\* A free thread takes a /record/stop request and runs line 137:
\* recording = False
stop_L137(r, alone) ==
    /\ Free(r)
    /\ alone => AtRest
    /\ calls < MaxCalls
    /\ calls' = calls + 1
    /\ recording' = FALSE
    /\ req' = [req EXCEPT ![r] = [IdleReq EXCEPT !.op = "stop", !.pc = "L138",
                                                 !.pre = Snapshot]]
    /\ UNCHANGED <<distvars, video_writer, recording_filename, detvars, now, sinks, uploads,
                   loops, framesRead, last>>

\* line 138: if video_writer:   (else line 147: return "...")
StopTestAlways(vw) == TRUE
StopTest(vw) == vw # None

stop_L138(r) ==
    /\ req[r].pc = "L138"
    /\ req' = IF StopTest(video_writer)
                THEN [req EXCEPT ![r].pc = "L139"]
                ELSE [req EXCEPT ![r].pc = "done", ![r].resp = RespStop]
    /\ UNCHANGED <<distvars, globals, detvars, now, sinks, uploads, loops, calls,
                   framesRead, last>>

\* line 139: video_writer.release().  The global is read again; on None the
\* attribute lookup raises AttributeError and Flask answers 500.
stop_L139(r) ==
    /\ req[r].pc = "L139"
    /\ IF video_writer = None
          THEN /\ req' = [req EXCEPT ![r].pc = "done", ![r].resp = Resp500]
               /\ UNCHANGED sinks
          ELSE /\ sinks' = [sinks EXCEPT ![video_writer] = Release(@)]
               /\ req' = [req EXCEPT ![r].pc = "L140"]
    /\ UNCHANGED <<distvars, globals, detvars, now, uploads, loops, calls, framesRead, last>>

\* line 140: video_writer = None
WriterKept(vw) == vw
WriterAfterStop(vw) == None

stop_L140(r) ==
    /\ req[r].pc = "L140"
    /\ video_writer' = WriterAfterStop(video_writer)
    /\ req' = [req EXCEPT ![r].pc = "L144"]
    /\ UNCHANGED <<distvars, recording, recording_filename, detvars, now, sinks, uploads,
                   loops, calls, framesRead, last>>

\* line 144, first element of args: recording_filename is read
stop_L144_local(r) ==
    /\ req[r].pc = "L144"
    /\ req' = [req EXCEPT ![r].pc = "L144g", ![r].arg = recording_filename]
    /\ UNCHANGED <<distvars, globals, detvars, now, sinks, uploads, loops, calls,
                   framesRead, last>>

\* lines 142-147: recording_filename is read again for the remote key, the
\* upload thread is started; return "..."
stop_L146(r) ==
    /\ req[r].pc = "L144g"
    /\ uploads' = Append(uploads, [local_path |-> req[r].arg,
                                   gcs_path |-> GcsPath(recording_filename),
                                   state |-> "running"])
    /\ req' = [req EXCEPT ![r].pc = "done", ![r].arg = <<>>, ![r].resp = RespStop]
    /\ UNCHANGED <<distvars, globals, detvars, now, sinks, loops, calls, framesRead, last>>

\* Flask sends the response and the thread is free again.
Respond(r) ==
    /\ req[r].pc = "done"
    /\ last' = [op |-> req[r].op, pre |-> req[r].pre, post |-> Snapshot,
                resp |-> req[r].resp]
    /\ req' = [req EXCEPT ![r] = IdleReq]
    /\ UNCHANGED <<distvars, globals, detvars, now, sinks, uploads, loops, calls, framesRead>>

\* ------------------------------------------------------------ upload_to_gcs
\* lines 35-51: the thread ends without the credentials file (line 39), after
\* the upload (line 49) or on an exception (line 51); none of the three
\* touches the server's state, so the model keeps only that it has ended.
upload_to_gcs(u) ==
    /\ u \in 1..Len(uploads)
    /\ uploads[u].state = "running"
    /\ uploads' = [uploads EXCEPT ![u].state = "finished"]
    /\ UNCHANGED <<distvars, globals, detvars, now, sinks, req, loops, calls, framesRead, last>>

\* A writer no name refers to any more is deallocated, which closes its
\* file: line 129 rebinds video_writer without releasing the writer it held.
\* When that happens is up to the interpreter.
Referenced(s) ==
    \/ video_writer = s
    \/ \E r \in Reqs : req[r].tmp = s
    \/ \E l \in LoopIds : loops[l].w = s

Finalize(s) ==
    /\ s \in OpenSinks
    /\ ~Referenced(s)
    /\ sinks' = [sinks EXCEPT ![s].state = "finalized"]
    /\ UNCHANGED <<distvars, globals, detvars, now, uploads, req, loops, calls, framesRead, last>>

\* ---------------------------------------------------------- generate_frames
\* lines 92-93: success, frame = cap.read()   (reads: the outcomes that the
\* camera allows; maxFrames: the frames it delivers)
ReadUnchecked(success) == "L97"
AfterRead(success) == IF success THEN "L97" ELSE "L95"

loop_L92(l, alone, reads, maxFrames) ==
    /\ loops[l].pc = "L91"
    /\ alone => AtRest
    /\ framesRead < maxFrames
    /\ \E success \in reads :
          /\ loops' = [loops EXCEPT ![l].pc = AfterRead(success)]
          /\ framesRead' = IF success THEN framesRead + 1 ELSE framesRead
    /\ UNCHANGED <<distvars, globals, detvars, now, sinks, uploads, req, calls, last>>

\* lines 94-96: print, time.sleep(0.1), continue
loop_L96(l) ==
    /\ loops[l].pc = "L95"
    /\ loops' = [loops EXCEPT ![l].pc = "L91"]
    /\ UNCHANGED <<distvars, globals, detvars, now, sinks, uploads, req, calls, framesRead, last>>

\* line 97: if recording and video_writer: the two globals are read one
\* after the other ("L97": recording, "L97w": video_writer).
FeedAlways(pc, rec, vw) == IF pc = "L97" THEN "L97w" ELSE "L98"
FeedGuard(pc, rec, vw) ==
    IF pc = "L97" THEN (IF rec THEN "L97w" ELSE "L99")
                  ELSE (IF vw # None THEN "L98" ELSE "L99")

loop_L97(l) ==
    /\ loops[l].pc \in {"L97", "L97w"}
    /\ loops' = [loops EXCEPT ![l].pc = FeedGuard(@, recording, video_writer)]
    /\ UNCHANGED <<distvars, globals, detvars, now, sinks, uploads, req, calls, framesRead, last>>

\* line 98: video_writer is read a third time; on None the attribute lookup
\* raises AttributeError, which ends the generator.
loop_L98(l) ==
    /\ loops[l].pc = "L98"
    /\ loops' = [loops EXCEPT ![l].pc = IF video_writer = None THEN "crashed"
                                                               ELSE "L98w",
                              ![l].w = video_writer]
    /\ UNCHANGED <<distvars, globals, detvars, now, sinks, uploads, req, calls, framesRead, last>>

\* line 98: .write(frame) on the writer just read
loop_L98_write(l) ==
    /\ loops[l].pc = "L98w"
    /\ sinks' = [sinks EXCEPT ![loops[l].w] = Write(@)]
    /\ loops' = [loops EXCEPT ![l].pc = "L99", ![l].w = None]
    /\ UNCHANGED <<distvars, globals, detvars, now, uploads, req, calls, framesRead, last>>

\* line 99: if time.time() - last_detect_time > 1:
Admit(t, lastT) == t - lastT > Window * TicksPerSec

\* line 99, and when the frame is not admitted lines 102-103: the frame is
\* encoded and yielded, and the loop starts again.
loop_L99(l) ==
    /\ loops[l].pc = "L99"
    /\ loops' = [loops EXCEPT ![l].pc = IF Admit(now, last_detect_time)
                                          THEN "L100" ELSE "L91"]
    /\ UNCHANGED <<distvars, globals, detvars, now, sinks, uploads, req, calls, framesRead, last>>

\* line 100: threading.Thread(target=detect_labels, args=(frame,)).start()
NewTask(t) ==
    [admitted |-> t, pc |-> "L65", best |-> "", translated |-> ""]

loop_L100(l) ==
    /\ loops[l].pc = "L100"
    /\ tasks' = Append(tasks, NewTask(now))
    /\ loops' = [loops EXCEPT ![l].pc = "L101"]
    /\ UNCHANGED <<distvars, globals, latest_result, last_detect_time, now, sinks,
                   uploads, req, calls, framesRead, last>>

\* lines 101-103: last_detect_time = time.time(); the frame is encoded and
\* yielded, and the loop starts again.
loop_L101(l) ==
    /\ loops[l].pc = "L101"
    /\ last_detect_time' = now
    /\ loops' = [loops EXCEPT ![l].pc = "L91"]
    /\ UNCHANGED <<distvars, globals, latest_result, tasks, now, sinks, uploads,
                   req, calls, framesRead, last>>

\* ------------------------------------------------------------ detect_labels
\* What the Vision API can answer: localized objects and label annotations.
Objects == {<<>>, <<"cat">>}
Labels  == {<<>>, <<"pet">>}
Unknown == "unknown"

\* line 69: the first object, else the first label, else the sentinel
Best(objects, labels) ==
    IF objects # <<>> THEN Head(objects)
    ELSE IF labels # <<>> THEN Head(labels) ELSE Unknown

\* The Translation API's Korean for a word (lines 70-71).
Translate(q) ==
    CASE q = "cat" -> "goyangi"
      [] q = "pet" -> "aewandongmul"
      [] OTHER     -> "al su eopseum"

\* lines 73-74: except Exception: print(...) leaves latest_result alone
ResultCleared(cur) == {}
ResultOnError(cur) == cur

\* lines 57-69: the Vision call; it raises (network, JSON) or answers.
detect_L65(t) ==
    /\ t \in 1..Len(tasks)
    /\ tasks[t].pc = "L65"
    /\ \E o \in Objects, d \in Labels, raised \in BOOLEAN :
          IF raised
            THEN /\ tasks' = [tasks EXCEPT ![t].pc = "failed"]
                 /\ latest_result' = ResultOnError(latest_result)
            ELSE /\ tasks' = [tasks EXCEPT ![t].pc = "L70", ![t].best = Best(o, d)]
                 /\ UNCHANGED latest_result
    /\ UNCHANGED <<distvars, globals, last_detect_time, now, sinks,
                   uploads, req, loops, calls, framesRead, last>>

\* lines 70-71: the Translation call; it raises or answers.
detect_L70(t) ==
    /\ t \in 1..Len(tasks)
    /\ tasks[t].pc = "L70"
    /\ \E raised \in BOOLEAN :
          IF raised
            THEN /\ tasks' = [tasks EXCEPT ![t].pc = "failed"]
                 /\ latest_result' = ResultOnError(latest_result)
            ELSE /\ tasks' = [tasks EXCEPT ![t].pc = "L72",
                                           ![t].translated = Translate(tasks[t].best)]
                 /\ UNCHANGED latest_result
    /\ UNCHANGED <<distvars, globals, last_detect_time, now, sinks,
                   uploads, req, loops, calls, framesRead, last>>

\* line 72: latest_result = {"label_en": best, "label_ko": translated}.
\* A dict is a set of <<key, value>> pairs; each value carries the number of
\* the task that computed it (history).
Pair(k, text, t) == <<k, [text |-> text, by |-> t]>>

StoreStale(cur, best, translated, t) ==
    {Pair("label_en", best, t)} \cup
    (IF \E p \in cur : p[1] = "label_ko"
        THEN {p \in cur : p[1] = "label_ko"}
        ELSE {Pair("label_ko", translated, t)})
StoreNewest(cur, best, translated, t) ==
    IF \E p \in cur : p[2].by > t
      THEN cur
      ELSE {Pair("label_en", best, t), Pair("label_ko", translated, t)}
StoreResult(cur, best, translated, t) ==
    {Pair("label_en", best, t), Pair("label_ko", translated, t)}

detect_L72(t) ==
    /\ t \in 1..Len(tasks)
    /\ tasks[t].pc = "L72"
    /\ latest_result' = StoreResult(latest_result, tasks[t].best,
                                    tasks[t].translated, t)
    /\ tasks' = [tasks EXCEPT ![t].pc = "done"]
    /\ UNCHANGED <<distvars, globals, last_detect_time, now, sinks, uploads, req,
                   loops, calls, framesRead, last>>

\* ---------------------------------------------------------------- GET /label
\* lines 119-121: the handler changes nothing; its response body in the
\* current state is jsonify(latest_result).
label == latest_result

\* ---------------------------------------------------------- update_distance
\* line 81: r = requests.get(DISTANCE_URL, timeout=1)
update_L81(maxSamples) ==
    /\ sampler.pc = "L81"
    /\ sampler.n < maxSamples
    /\ \E r \in Responses :
          sampler' = [pc |-> IF r.raised THEN "L85" ELSE "L82", r |-> r,
                      n |-> sampler.n + 1]
    /\ UNCHANGED <<latest_distance, recvars>>

\* line 82: if r.status_code == 200:
update_L82 ==
    /\ sampler.pc = "L82"
    /\ sampler' = [sampler EXCEPT !.pc = IF sampler.r.status_code = 200
                                           THEN "L83" ELSE "L86"]
    /\ UNCHANGED <<latest_distance, recvars>>

\* line 83: latest_distance = int(r.text.strip()); a ValueError goes to the
\* except clause.
update_L83 ==
    /\ sampler.pc = "L83"
    /\ IF IsInt(strip(sampler.r.text))
          THEN /\ latest_distance' = PyInt(int(strip(sampler.r.text)))
               /\ sampler' = [sampler EXCEPT !.pc = "L86"]
          ELSE /\ sampler' = [sampler EXCEPT !.pc = "L85"]
               /\ UNCHANGED latest_distance
    /\ UNCHANGED recvars

\* lines 84-85: except: latest_distance = None
update_L85 ==
    /\ sampler.pc = "L85"
    /\ latest_distance' = PyNone
    /\ sampler' = [sampler EXCEPT !.pc = "L86"]
    /\ UNCHANGED recvars

\* line 86: time.sleep(1), and the loop starts again
update_L86 ==
    /\ sampler.pc = "L86"
    /\ sampler' = [sampler EXCEPT !.pc = "L81"]
    /\ UNCHANGED <<latest_distance, recvars>>

\* ------------------------------------------------------------- GET /distance
\* lines 114-117: the handler changes nothing; its response body in the
\* current state is jsonify({'distance_cm': ...}).
DistanceIfTruthy(d) ==
    [distance_cm |-> IF d # PyNone /\ d # PyInt(0) THEN d ELSE PyStr("N/A")]
DistanceBody(d) == [distance_cm |-> IF d # PyNone THEN d ELSE PyStr("N/A")]

distance == DistanceBody(latest_distance)

\* ------------------------------------------------------------ specifications
\* The record requests, a /video client, the uploads and the clock, freely
\* interleaved, while the disk and the camera do not fail: every sink opens
\* and every cap.read() succeeds.
Next ==
    \/ Tick(ConcTicks)
    \/ \E r \in Reqs :
          \/ start_L127(r, FALSE) \/ start_L129_open(r, {TRUE})
          \/ start_L129_store(r) \/ start_L130(r)
          \/ stop_L137(r, FALSE) \/ stop_L138(r) \/ stop_L139(r) \/ stop_L140(r)
          \/ stop_L144_local(r) \/ stop_L146(r)
          \/ Respond(r)
    \/ \E l \in 1..ConcLoops :
          \/ loop_L92(l, FALSE, {TRUE}, ConcFrames)
          \/ loop_L97(l) \/ loop_L98(l) \/ loop_L98_write(l)
          \/ loop_L99(l) \/ loop_L100(l) \/ loop_L101(l)
    \/ \E u \in 1..MaxCalls : upload_to_gcs(u)
    \/ \E s \in 1..MaxCalls : Finalize(s)

Spec == Init /\ [][Next]_vars

\* The same threads when no two of them overlap: a request or a loop
\* iteration starts only when every other request and loop is at rest.
SeqNext ==
    \/ Tick(SeqTicks)
    \/ \E r \in Reqs :
          \/ start_L127(r, TRUE) \/ start_L129_open(r, BOOLEAN)
          \/ start_L129_store(r) \/ start_L130(r)
          \/ stop_L137(r, TRUE) \/ stop_L138(r) \/ stop_L139(r) \/ stop_L140(r)
          \/ stop_L144_local(r) \/ stop_L146(r)
          \/ Respond(r)
    \/ \E l \in 1..SeqLoops :
          \/ loop_L92(l, TRUE, BOOLEAN, SeqFrames) \/ loop_L96(l)
          \/ loop_L97(l) \/ loop_L98(l) \/ loop_L98_write(l)
          \/ loop_L99(l) \/ loop_L100(l) \/ loop_L101(l)
    \/ \E u \in 1..MaxCalls : upload_to_gcs(u)
    \/ \E s \in 1..MaxCalls : Finalize(s)

SeqSpec == Init /\ [][SeqNext]_vars

\* The /video clients and the detection threads while no record request is
\* made (recording stays False, so line 98 is never reached).
DetNext ==
    \/ Tick(DetTicks)
    \/ \E l \in 1..DetLoops :
          \/ loop_L92(l, FALSE, BOOLEAN, DetFrames) \/ loop_L96(l) \/ loop_L97(l)
          \/ loop_L99(l) \/ loop_L100(l) \/ loop_L101(l)
    \/ \E t \in 1..DetFrames :
          detect_L65(t) \/ detect_L70(t) \/ detect_L72(t)

DetSpec == Init /\ [][DetNext]_vars

\* The /video clients alone: which frames line 99 admits.  The detection
\* threads they start are not scheduled.
AdmitNext ==
    \/ Tick(AdmitTicks)
    \/ \E l \in LoopIds :
          \/ loop_L92(l, FALSE, BOOLEAN, AdmitFrames) \/ loop_L96(l) \/ loop_L97(l)
          \/ loop_L99(l) \/ loop_L100(l) \/ loop_L101(l)

AdmitSpec == Init /\ [][AdmitNext]_vars

\* The distance sampler thread started at line 167, alone: nothing else
\* writes latest_distance.
DistNext ==
    \/ update_L81(MaxSamples) \/ update_L82 \/ update_L83 \/ update_L85
    \/ update_L86

DistSpec == Init /\ [][DistNext]_vars

\* ------------------------------------------------------------------ claims
\* A session is Active in a snapshot when the flag is set and a writer is
\* held, and the controller is Idle when neither is.
ActiveIn(snap) == snap.recording /\ snap.video_writer # None
IdleIn(snap)   == ~snap.recording /\ snap.video_writer = None

\* A request that has run to its return statement and is not yet answered.
Returned(r, op) == req[r].pc = "done" /\ req[r].op = op

\* C1: at most one sink that has been opened has not yet been released.
C1_AtMostOneOpenSink == Cardinality(OpenSinks) <= 1

\* C2: a /record/start that finds a session Active does not return the
\* normal acknowledgement and leaves recording_filename and video_writer as
\* they were.
C2_StartWhileActiveRejected ==
    \A r \in Reqs :
        Returned(r, "start") /\ ActiveIn(req[r].pre)
        => /\ req[r].resp # RespStart
           /\ video_writer = req[r].pre.video_writer
           /\ recording_filename = req[r].pre.recording_filename

\* C3: a step of a frame loop taken while the controller is Idle writes to
\* no sink (it does not even reach the write statement of line 98) and
\* starts no upload.
C3_IdleFeedIsNoOp ==
    [][ (IdleIn(Snapshot) /\ loops' # loops)
        => /\ sinks' = sinks
           /\ uploads' = uploads
           /\ \A l \in LoopIds : loops'[l].pc \notin {"L98", "L98w", "crashed"}
      ]_vars

C3_Witness ==
    /\ IdleIn(Snapshot)
    /\ Len(sinks) > 0
    /\ \E l \in LoopIds : loops[l].pc = "L99"

\* C4: a /record/stop that finds the controller Idle returns the normal
\* acknowledgement, starts no upload, releases no sink and leaves the
\* controller Idle.
C4_StopWhileIdleIsNeutral ==
    \A r \in Reqs :
        Returned(r, "stop") /\ IdleIn(req[r].pre)
        => /\ req[r].resp = RespStop
           /\ Len(uploads) = req[r].pre.nuploads
           /\ Releases = req[r].pre.releases
           /\ IdleIn(Snapshot)

C4_Witness == \E r \in Reqs : Returned(r, "stop") /\ IdleIn(req[r].pre)

\* C5: when /record/stop is called twice in a row on an Active session, the
\* two calls start exactly one upload together and the second call leaves
\* the state the first one left.
SameRecordingState(a, b) ==
    /\ a.recording = b.recording
    /\ a.video_writer = b.video_writer
    /\ a.recording_filename = b.recording_filename
    /\ a.nuploads = b.nuploads
    /\ a.releases = b.releases

SecondStop(r) == Returned(r, "stop") /\ last.op = "stop" /\ ActiveIn(last.pre)

C5_StopTwiceOneUpload ==
    \A r \in Reqs :
        SecondStop(r)
        => /\ Len(uploads) = last.pre.nuploads + 1
           /\ SameRecordingState(Snapshot, last.post)

C5_Witness == \E r \in Reqs : SecondStop(r)

\* C6: Start from Idle, N >= 1 frames, Stop: exactly one upload is started,
\* for the file named by that Start under the key "recordings/" + name, and
\* the session's sink holds the N frames and is released.
SessionStop(r) ==
    /\ Returned(r, "stop")
    /\ last.op = "start" /\ IdleIn(last.pre) /\ ActiveIn(last.post)
    /\ sinks[last.post.video_writer].state # "failed"
    /\ req[r].pre.frames - last.post.frames >= 1

C6_SessionUploadedOnce ==
    \A r \in Reqs :
        SessionStop(r)
        => LET w  == last.post.video_writer
               fn == last.post.recording_filename
               n  == req[r].pre.frames - last.post.frames
           IN /\ Len(uploads) = last.post.nuploads + 1
              /\ uploads[Len(uploads)].local_path = fn
              /\ uploads[Len(uploads)].gcs_path = <<"recordings/">> \o fn
              /\ sinks[w].path = fn
              /\ sinks[w].frames = n
              /\ sinks[w].dropped = 0
              /\ sinks[w].state = "released"

C6_Witness == \E r \in Reqs : SessionStop(r)

\* C7: a /record/stop on a session whose sink opened and received no frame
\* starts no upload.
C7_EmptySessionNotUploaded ==
    \A r \in Reqs :
        ( /\ Returned(r, "stop")
          /\ ActiveIn(req[r].pre)
          /\ sinks[req[r].pre.video_writer].state # "failed"
          /\ sinks[req[r].pre.video_writer].frames = 0 )
        => Len(uploads) = req[r].pre.nuploads

\* C8: the detections launched in any interval of length T number at most
\* ceil(T/W) + 1.  Launches i..j lie in an interval shorter than the ticks
\* between them plus one, which is the length the bound is taken for.
CeilDiv(a, b) == (a + b - 1) \div b

C8_AdmissionBound ==
    \A i, j \in 1..Len(tasks) :
        i < j => (j - i + 1) <= CeilDiv(tasks[j].admitted - tasks[i].admitted + 1,
                                        Window * TicksPerSec) + 1

C10_ResultFromOneTask ==
    \/ label = {}
    \/ \E t \in 1..Len(tasks) :
          /\ tasks[t].pc = "done"
          /\ label = {<<"label_en", [text |-> tasks[t].best, by |-> t]>>,
                      <<"label_ko", [text |-> tasks[t].translated, by |-> t]>>}

C10_Witness ==
    /\ Len(tasks) >= 2
    /\ \A t \in 1..Len(tasks) : tasks[t].pc = "done"
    /\ \E p \in label : p[2].by = 1

\* C11: GET /distance returns the stored reading whenever one is stored, 0
\* included, and "N/A" exactly when the stored value is None, which it is
\* until the sampler has written a sample.
C11_DistanceBody ==
    /\ latest_distance.type = "int" => distance.distance_cm = latest_distance
    /\ distance.distance_cm = PyStr("N/A") <=> latest_distance = PyNone
    /\ sampler.n = 0 => distance.distance_cm = PyStr("N/A")

C11_Witness == latest_distance = PyInt(0) /\ distance.distance_cm = PyInt(0)

\* C15: when an iteration of the sampler is over, latest_distance is the
\* number read if the read succeeded and None if it failed (the request
\* raised, the status was not 200 or the body is not a number).
ReadOk(r) == ~r.raised /\ r.status_code = 200 /\ IsInt(strip(r.text))

C15_FailedTickStoresUnknown ==
    sampler.pc = "L86"
    => latest_distance = IF ReadOk(sampler.r)
                           THEN PyInt(int(strip(sampler.r.text))) ELSE PyNone

\* C12: the frame loop never reaches the write of line 98 with video_writer
\* None (which ends the generator), and no frame is handed to a sink that
\* is not open any more.
C12_WritesOnlyOnOpenSink ==
    /\ \A l \in LoopIds : loops[l].pc # "crashed"
    /\ \A s \in 1..Len(sinks) : sinks[s].dropped = 0

\* C13: at most one upload thread has been started and has not finished.
InFlight == {u \in 1..Len(uploads) : uploads[u].state = "running"}

C13_AtMostOneUploadInFlight == Cardinality(InFlight) <= 1

\* C19: when no request is being served, recording is True exactly when
\* video_writer holds an open sink.
Quiescent == \A r \in Reqs : req[r].pc = "idle"

C19_FlagAgreesWithSink ==
    Quiescent
    => (recording <=> (video_writer # None /\ sinks[video_writer].state = "open"))

\* C20: two /record/stop requests that both found the sink of one Active
\* session in video_writer release it once between them, neither fails on
\* a missing sink, and they start one upload between them.
StopsOverlap(r1, r2) ==
    /\ r1 # r2
    /\ Returned(r1, "stop") /\ Returned(r2, "stop")
    /\ ActiveIn(req[r1].pre)
    /\ req[r2].pre.video_writer = req[r1].pre.video_writer

C20_ConcurrentStopsReleaseOnce ==
    \A r1, r2 \in Reqs :
        StopsOverlap(r1, r2)
        => /\ sinks[req[r1].pre.video_writer].releases = 1
           /\ req[r1].resp = RespStop /\ req[r2].resp = RespStop
           /\ Len(uploads) = req[r1].pre.nuploads + 1

\* C14: once a file has been handed to an upload thread, no sink is opened
\* on its path and no frame is written to a sink on its path.
HandedOff == {uploads[u].local_path : u \in 1..Len(uploads)}

C14_HandedOffFileNotReopened ==
    [][ /\ Len(sinks') > Len(sinks) => sinks'[Len(sinks')].path \notin HandedOff
        /\ \A s \in 1..Len(sinks) :
              sinks'[s].frames > sinks[s].frames => sinks[s].path \notin HandedOff
      ]_vars

\* C16: a /record/start from Idle whose sink could not be opened does not
\* return the normal acknowledgement and leaves the controller Idle.
C16_FailedOpenStaysIdle ==
    \A r \in Reqs :
        ( /\ Returned(r, "start")
          /\ IdleIn(req[r].pre)
          /\ sinks[Len(sinks)].state = "failed" )
        => /\ req[r].resp # RespStart
           /\ IdleIn(Snapshot)

\* C17: an iteration whose cap.read() failed writes to no sink, admits no
\* detection and changes none of the globals: it goes through lines 94-96
\* back to the read.  So every write and every admission belongs to a
\* successful read.
RECURSIVE Writes(_)
Writes(i) ==
    IF i = 0 THEN 0 ELSE sinks[i].frames + sinks[i].dropped + Writes(i - 1)

C17_FailedReadSkipsIteration ==
    /\ [](Writes(Len(sinks)) <= framesRead /\ Len(tasks) <= framesRead)
    /\ [][ \A l \in LoopIds :
              (loops'[l] # loops[l] /\ (loops[l].pc = "L95" \/ loops'[l].pc = "L95"))
              => /\ UNCHANGED <<globals, detvars, sinks, uploads, framesRead>>
                 /\ loops[l].pc = "L91" \/ loops'[l].pc = "L91"
         ]_vars

C17_Witness ==
    /\ recording /\ video_writer # None
    /\ Admit(now, last_detect_time)
    /\ \E l \in LoopIds : loops[l].pc = "L95"

\* C18: whenever a detection task completes successfully, what GET /label
\* returns becomes that task's pair, whatever is stored and whichever task
\* was admitted first; so the result of an earlier frame can replace the
\* stored result of a later one.
C18_LastWriteWins ==
    [][ \A t \in 1..Len(tasks) :
          (tasks[t].pc # "done" /\ tasks'[t].pc = "done")
          => label' = {Pair("label_en", tasks[t].best, t),
                       Pair("label_ko", tasks[t].translated, t)}
      ]_vars

\* Both tasks have stored their result and the one admitted first stored
\* last.
C18_Witness ==
    /\ Len(tasks) = 2
    /\ tasks[1].admitted < tasks[2].admitted
    /\ tasks[1].pc = "done" /\ tasks[2].pc = "done"
    /\ \A p \in label : p[2].by = 1

====
